---- MODULE Spec2Model ----
(***************************************************************************)
(* State-machine model of the SafetyFixs submissions backend               *)
(* (src/index.js): an Express application in front of one SQLite table.    *)
(*                                                                         *)
(* A request handler runs synchronously up to its db.run / db.all call,    *)
(* which only queues a statement; the statement is executed later by the   *)
(* database, one statement at a time, and its callback sends the response. *)
(*                                                                         *)
(* Spec serves one request at a time: an action is a handler together with *)
(* the execution of its statement and the callback's response.             *)
(* SpecOverlapping keeps the statements of several requests in flight: an  *)
(* action is either a handler up to its db.run call or the execution of    *)
(* one queued statement with its callback.                                 *)
(***************************************************************************)
EXTENDS Integers, Sequences, FiniteSets, Bags, TLC

\* ------------------------------------------------------------- bounds
\* Number of statements the handlers hand to the database in a run.
MaxStatements == 3
\* Last clock tick.
MaxClock == 1

\* Clock ticks per second: CURRENT_TIMESTAMP has one-second resolution, the
\* clock read by new Date() a finer one.
TicksPerSecond == 1

\* ------------------------------------------------------------- values
\* JavaScript values (what express.json() can put into req.body / req.query).
JsUndefined == <<"undefined">>
JsNull == <<"null">>
JsBool(b) == <<"boolean", b>>
JsNumber(n) == <<"number", n>>
JsString(s) == <<"string", s>>
\* The string produced by new Date(t).toISOString().
JsIsoString(t) == <<"isostring", t>>

\* SQLite values, tagged with their storage class.
SqlNull == <<"null">>
SqlInt(n) == <<"integer", n>>
SqlText(s) == <<"text", s>>
\* TEXT holding an ISO-8601 instant, millisecond resolution.
SqlIsoText(t) == <<"isotext", t>>
\* TEXT 'YYYY-MM-DD HH:MM:SS' as produced by CURRENT_TIMESTAMP.
SqlDateTime(s) == <<"datetime", s>>

\* JavaScript ToBoolean, as used by `isDone ? ... : null`.
Truthy(v) ==
    CASE v[1] = "undefined" -> FALSE
      [] v[1] = "null" -> FALSE
      [] v[1] = "boolean" -> v[2]
      [] v[1] = "number" -> v[2] # 0
      [] v[1] = "string" -> v[2] # ""
      [] v[1] = "isostring" -> TRUE

\* new Date().toISOString() at clock value t.
ToISOString(t) == JsIsoString(t)

\* CURRENT_TIMESTAMP at clock value t (whole seconds).
CurrentTimestamp(t) == SqlDateTime(t \div TicksPerSecond)

\* node-sqlite3 parameter binding: booleans become integers, strings text,
\* null and undefined NULL.
Bind(v) ==
    CASE v[1] = "undefined" -> SqlNull
      [] v[1] = "null" -> SqlNull
      [] v[1] = "boolean" -> SqlInt(IF v[2] THEN 1 ELSE 0)
      [] v[1] = "number" -> SqlInt(v[2])
      [] v[1] = "string" -> SqlText(v[2])
      [] v[1] = "isostring" -> SqlIsoText(v[2])

Digits == <<"0", "1", "2", "3", "4", "5", "6", "7", "8", "9">>

RECURSIVE IntToText(_)
\* Decimal rendering of a natural number.
IntToText(n) ==
    IF n < 10 THEN Digits[n + 1]
    ELSE IntToText(n \div 10) \o Digits[(n % 10) + 1]

\* The integers whose decimal text can occur in the model.
Numerals == (0 .. 9) \cup {2020}

\* Their decimal texts.
NumeralText == [n \in Numerals |-> IntToText(n)]

\* Does the text look like an integer literal?
IsNumericText(s) == \E n \in Numerals : NumeralText[n] = s

\* The integer a numeric text denotes.
TextToInt(s) == CHOOSE n \in Numerals : NumeralText[n] = s

\* SQLite column affinity applied to a value about to be stored or compared.
ApplyAffinity(aff, v) ==
    IF v[1] = "text" /\ aff \in {"INTEGER", "NUMERIC"} /\ IsNumericText(v[2])
    THEN SqlInt(TextToInt(v[2]))
    ELSE IF v[1] = "integer" /\ aff = "TEXT"
    THEN SqlText(IntToText(v[2]))
    ELSE v

\* ------------------------------------------------------------- schema
\* Declared affinity of every column of the submissions table.
ColumnAffinity ==
    [ id |-> "INTEGER", shopName |-> "TEXT", phoneNumber |-> "TEXT",
      dropOffType |-> "TEXT", vehicleYear |-> "INTEGER", vehicleMake |-> "TEXT",
      vehicleModel |-> "TEXT", vehicleIssueDescription |-> "TEXT",
      moduleCount |-> "INTEGER", singleStageCount |-> "INTEGER",
      dualStageCount |-> "INTEGER", threeStageCount |-> "INTEGER",
      buckleCount |-> "INTEGER", isDone |-> "NUMERIC", isPrinted |-> "NUMERIC",
      submittedAt |-> "NUMERIC", doneAt |-> "NUMERIC", printedAt |-> "NUMERIC" ]

Columns == DOMAIN ColumnAffinity

\* Columns declared NOT NULL.
NotNullColumns == {"isDone", "isPrinted"}

\* The column list of the INSERT statement, in order.
InsertColumns ==
    << "shopName", "phoneNumber", "dropOffType", "vehicleYear", "vehicleMake",
       "vehicleModel", "vehicleIssueDescription", "moduleCount",
       "singleStageCount", "dualStageCount", "threeStageCount", "buckleCount" >>

\* The request-body keys whose values are bound to InsertColumns, in order.
SubmitParamKeys ==
    << "customerName", "phoneNumber", "dropOffType", "vehicleYear", "vehicleMake",
       "vehicleModel", "vehicleIssueDescription", "moduleCount",
       "singleStageCount", "dualStageCount", "threeStageCount", "buckleCount" >>

\* The attributes a create request supplies (everything but the system ones).
PayloadColumns == {InsertColumns[i] : i \in DOMAIN InsertColumns}

\* A row the INSERT produces before its rowid and defaults are filled in.
DefaultRow(rowid, t) ==
    [ c \in Columns |->
        CASE c = "id" -> SqlInt(rowid)
          [] c = "isDone" -> SqlInt(0)
          [] c = "isPrinted" -> SqlInt(0)
          [] c = "submittedAt" -> CurrentTimestamp(t)
          [] OTHER -> SqlNull ]

\* ------------------------------------------------------------- access control
\* The static credential table.
users == [admin |-> "password"]

\* An Authorization header: absent, or Basic user:password.
NoCredentials == <<"none">>
BasicCredentials(user, password) == <<"basic", user, password>>

\* Mutation of Authorized: only the user name is looked up.
AuthorizedByUserName(auth) ==
    /\ auth[1] = "basic"
    /\ \E u \in DOMAIN users : auth[2] = u

\* express-basic-auth's static-users check: some entry matches both parts.
Authorized(auth) ==
    /\ auth[1] = "basic"
    /\ \E u \in DOMAIN users : auth[2] = u /\ auth[3] = users[u]

\* The body of the 401 response.
unauthorizedResponse(auth) ==
    IF auth[1] = "basic"
    THEN <<"Credentials rejected", auth[2], auth[3]>>
    ELSE <<"No credentials provided">>

\* The 401 the authenticator middleware sends (challenge: true).
Challenge(auth) ==
    [ status |-> 401, challenge |-> "Basic", body |-> unauthorizedResponse(auth) ]

\* ------------------------------------------------------------- inputs
\* Credentials a client may send.
Credentials ==
    { NoCredentials,
      BasicCredentials("admin", "password"),
      BasicCredentials("admin", "wrong"),
      BasicCredentials("guest", "password") }

\* A create body with no field at all.
EmptySubmission == [k \in {SubmitParamKeys[i] : i \in DOMAIN SubmitParamKeys} |-> JsUndefined]

\* Create bodies: empty, and one with text and integer fields, one of them an
\* integer sent as a string.
SubmitBodies ==
    { EmptySubmission,
      [ EmptySubmission EXCEPT !.customerName = JsString("Acme Glass"),
                               !.vehicleYear = JsString("2020"),
                               !.vehicleMake = JsString("Honda"),
                               !.vehicleModel = JsString("Civic"),
                               !.moduleCount = JsNumber(2) ] }

\* Values a status field may carry: absent, the two booleans, JSON null,
\* and the string "0" (a form-encoded or mistyped flag).
StatusValues ==
    { JsUndefined, JsBool(TRUE), JsBool(FALSE), JsNull, JsString("0") }

\* Status-update bodies.
StatusBodies ==
    { [isDone |-> d, isPrinted |-> JsUndefined] : d \in StatusValues }
    \cup { [isDone |-> JsUndefined, isPrinted |-> p] : p \in {JsBool(TRUE), JsBool(FALSE)} }
    \cup { [isDone |-> JsBool(TRUE), isPrinted |-> JsBool(TRUE)] }

\* Path ids, as the strings Express takes from the URL: the first two ids the
\* table assigns (a request may name either before it has been assigned).
PathIds == {"1", "2"}

\* showAll query values: absent, "true", and others.
ShowAllValues == { JsUndefined, JsString("true"), JsString("false"), JsString("1") }

\* ------------------------------------------------------------- state
VARIABLES
    \* the submissions table, in rowid order
    table,
    \* the AUTOINCREMENT counter kept in sqlite_sequence
    sqlite_sequence,
    \* bag of statements handed to db.run / db.all and not yet executed
    queue,
    \* the clock
    now,
    \* what the last step read of the request it received: the authenticator
    \* reads the route and the credentials, a handler also its path id, query
    \* or body (route "none" when the step received no request)
    request,
    \* the response the last step sent (status 0 when it sent none)
    response,
    \* the ids sent in 201 responses, in the order sent
    issued,
    \* the number of statements handed to the database so far
    submitted,
    \* the table as it was before the last step
    before

vars == <<table, sqlite_sequence, queue, now, request, response, issued, submitted, before>>

NoRequest == [route |-> "none", auth |-> NoCredentials]
NoResponse == [status |-> 0]

Init ==
    /\ table = <<>>
    /\ sqlite_sequence = 0
    /\ queue = EmptyBag
    /\ now = 0
    /\ request = NoRequest
    /\ response = NoResponse
    /\ issued = <<>>
    /\ submitted = 0
    /\ before = <<>>

\* Time passes.
Tick ==
    /\ now < MaxClock
    /\ before' = table
    /\ now' = now + 1
    /\ request' = NoRequest
    /\ response' = NoResponse
    /\ UNCHANGED <<table, sqlite_sequence, queue, issued, submitted>>

\* ------------------------------------------------------------- statements
\* POST /api/submit: the INSERT and its twelve parameters.
SubmitStatement(body) ==
    [ sql |-> [verb |-> "INSERT", columns |-> InsertColumns],
      params |-> [i \in DOMAIN SubmitParamKeys |-> body[SubmitParamKeys[i]]] ]

\* Mutation of ListStatement: showAll is tested for truthiness, so any
\* non-empty string shows everything.
ListStatementTruthy(showAll) ==
    [ sql |-> [ verb |-> "SELECT",
                where |-> IF ~Truthy(showAll) THEN "isDone = 0" ELSE "",
                orderBy |-> "submittedAt DESC" ],
      params |-> <<>> ]

\* GET /api/submissions: the SELECT, filtered unless showAll is "true".
ListStatement(showAll) ==
    [ sql |-> [ verb |-> "SELECT",
                where |-> IF showAll # JsString("true") THEN "isDone = 0" ELSE "",
                orderBy |-> "submittedAt DESC" ],
      params |-> <<>> ]

\* Mutation of FieldUpdates: the field is written whether or not it was sent.
FieldUpdatesUnchecked(body, flag, stamp, t) ==
    [ updates |-> <<flag, stamp>>,
      params |-> <<body[flag], IF Truthy(body[flag]) THEN ToISOString(t) ELSE JsNull>> ]

\* The SET list and its parameters for one status field at clock value t:
\* the flag as sent, and its timestamp (now if the flag is truthy, else null).
FieldUpdates(body, flag, stamp, t) ==
    IF body[flag] # JsUndefined
    THEN [ updates |-> <<flag, stamp>>,
           params |-> <<body[flag], IF Truthy(body[flag]) THEN ToISOString(t) ELSE JsNull>> ]
    ELSE [ updates |-> <<>>, params |-> <<>> ]

\* The whole SET list: isDone/doneAt first, then isPrinted/printedAt.
StatusUpdates(body, t) ==
    LET d == FieldUpdates(body, "isDone", "doneAt", t)
        p == FieldUpdates(body, "isPrinted", "printedAt", t)
    IN  [ updates |-> d.updates \o p.updates, params |-> d.params \o p.params ]

\* The UPDATE of POST /api/submissions/:id/status: one statement, id last.
StatusStatement(id, body, t) ==
    LET u == StatusUpdates(body, t)
    IN  [ sql |-> [verb |-> "UPDATE", set |-> u.updates, where |-> "id = ?"],
          params |-> Append(u.params, JsString(id)) ]

\* ------------------------------------------------------------- database
\* The value a parameter takes in a column: bound, then the column's affinity.
Stored(column, param) == ApplyAffinity(ColumnAffinity[column], Bind(param))

\* Mutation of NextRowid: the counter is not advanced past the first row.
NextRowidNotAdvanced(seq) == IF seq = 0 THEN 1 ELSE seq

\* AUTOINCREMENT: one more than the largest rowid ever used.
NextRowid(seq) == seq + 1

\* The position of a column in a statement's column list, 0 if absent.
Position(columns, c) ==
    IF \E i \in DOMAIN columns : columns[i] = c
    THEN CHOOSE i \in DOMAIN columns : columns[i] = c
    ELSE 0

\* The row an INSERT statement creates.
InsertedRow(stmt, rowid, t) ==
    LET default == DefaultRow(rowid, t)
    IN  [ c \in Columns |->
            LET i == Position(stmt.sql.columns, c)
            IN  IF i > 0 THEN Stored(c, stmt.params[i]) ELSE default[c] ]

\* The INSERT runs; its callback answers 201 with this.lastID.
RunInsert(stmt) ==
    /\ stmt.sql.verb = "INSERT"
    /\ LET rowid == NextRowid(sqlite_sequence)
       IN  /\ table' = Append(table, InsertedRow(stmt, rowid, now))
           /\ sqlite_sequence' = rowid
           /\ response' = [ status |-> 201, message |-> "Form submitted successfully!",
                            id |-> rowid, stmt |-> stmt ]
           /\ issued' = Append(issued, rowid)

\* WHERE isDone = 0 on a stored value: only a numeric zero compares equal.
IsZero(v) == v[1] = "integer" /\ v[2] = 0

\* Does the row pass the SELECT's WHERE clause?
Selected(where, row) == where = "" \/ IsZero(row.isDone)

\* Mutation of Before: ascending order.
BeforeAscending(a, b) ==
    IF a[1] = "null" \/ b[1] = "null" THEN a[1] = "null" /\ b[1] # "null"
    ELSE a[2] < b[2]

\* ORDER BY ... DESC: must a come before b (NULLs sort last when descending)?
Before(a, b) ==
    IF a[1] = "null" \/ b[1] = "null" THEN a[1] # "null" /\ b[1] = "null"
    ELSE a[2] > b[2]

\* The result sets a SELECT may return: the selected rows in any order that
\* respects ORDER BY (rows with equal keys come in an order SQLite chooses).
ResultSets(stmt, rows) ==
    LET sel == {i \in DOMAIN rows : Selected(stmt.sql.where, rows[i])}
        n == Cardinality(sel)
        orders == {f \in [1 .. n -> sel] :
                      /\ \A i, j \in 1 .. n : i # j => f[i] # f[j]
                      /\ \A i, j \in 1 .. n :
                            i < j => ~Before(rows[f[j]].submittedAt, rows[f[i]].submittedAt)}
    IN  {[i \in 1 .. n |-> rows[f[i]]] : f \in orders}

\* The SELECT runs; its callback answers with the rows.
RunSelect(stmt) ==
    /\ stmt.sql.verb = "SELECT"
    /\ \E rows \in ResultSets(stmt, table) :
          response' = [status |-> 200, rows |-> rows, stmt |-> stmt]
    /\ UNCHANGED <<table, sqlite_sequence, issued>>

\* Mutation of Matches: the WHERE clause is missing.
MatchesEveryRow(stmt, row) == TRUE

\* WHERE id = ?: the parameter is compared under the id column's affinity.
Matches(stmt, row) ==
    row.id = ApplyAffinity("NUMERIC", Bind(stmt.params[Len(stmt.params)]))

\* Mutation of UpdatedRow: a timestamp already set is kept ("first done").
UpdatedRowKeepingFirstStamp(stmt, row) ==
    [ c \in Columns |->
        LET i == Position(stmt.sql.set, c)
        IN  IF i = 0 THEN row[c]
            ELSE IF c \in {"doneAt", "printedAt"} /\ row[c] # SqlNull
                    /\ Stored(c, stmt.params[i]) # SqlNull
            THEN row[c]
            ELSE Stored(c, stmt.params[i]) ]

\* The row after the statement's SET list has been applied to it.
UpdatedRow(stmt, row) ==
    [ c \in Columns |->
        LET i == Position(stmt.sql.set, c)
        IN  IF i > 0 THEN Stored(c, stmt.params[i]) ELSE row[c] ]

\* Would the row break a NOT NULL constraint?
ViolatesNotNull(row) == \E c \in NotNullColumns : row[c] = SqlNull

\* Mutation of UpdateResponse: this.changes is not looked at.
UpdateResponseIgnoringChanges(stmt, changes) ==
    [status |-> 200, message |-> "Status updated successfully.", stmt |-> stmt]

\* The status the UPDATE's callback answers with, given this.changes.
UpdateResponse(stmt, changes) ==
    IF changes = 0
    THEN [status |-> 404, error |-> "Submission not found.", stmt |-> stmt]
    ELSE [status |-> 200, message |-> "Status updated successfully.", stmt |-> stmt]

\* The UPDATE runs; its callback answers 200, 404 (this.changes = 0) or, when a
\* constraint rejects the statement, 500 with nothing written.
RunUpdate(stmt) ==
    /\ stmt.sql.verb = "UPDATE"
    /\ LET hit == {i \in DOMAIN table : Matches(stmt, table[i])}
           after == [i \in DOMAIN table |->
                        IF i \in hit THEN UpdatedRow(stmt, table[i]) ELSE table[i]]
       IN  IF \E i \in hit : ViolatesNotNull(after[i])
           THEN /\ response' = [status |-> 500, error |-> "Failed to update status.", stmt |-> stmt]
                /\ UNCHANGED table
           ELSE /\ table' = after
                /\ response' = UpdateResponse(stmt, Cardinality(hit))
    /\ UNCHANGED <<sqlite_sequence, issued>>

\* The generic error body each route sends when its statement fails.
FailureMessage(verb) ==
    CASE verb = "INSERT" -> "Failed to submit form."
      [] verb = "SELECT" -> "Could not retrieve submissions."
      [] verb = "UPDATE" -> "Failed to update status."

\* The storage engine fails the statement (no table, I/O error, busy):
\* nothing is written and the callback answers 500.
RunError(stmt) ==
    /\ response' = [status |-> 500, error |-> FailureMessage(stmt.sql.verb), stmt |-> stmt]
    /\ UNCHANGED <<table, sqlite_sequence, issued>>

\* The database executes one statement and the statement's callback answers.
Run(stmt) ==
    \/ RunInsert(stmt)
    \/ RunSelect(stmt)
    \/ RunUpdate(stmt)
    \/ RunError(stmt)

\* ------------------------------------------------------------- handlers
\* One more statement is handed to the database.
Hand(n) ==
    /\ submitted + n <= MaxStatements
    /\ submitted' = submitted + n

\* POST /api/submit. Not behind the authenticator: credentials are ignored.
Submit(auth, body) ==
    /\ Hand(1)
    /\ before' = table
    /\ request' = [route |-> "POST /api/submit", auth |-> auth, body |-> body]
    /\ Run(SubmitStatement(body))
    /\ UNCHANGED <<queue, now>>

\* GET /api/submissions, once the authenticator has let the request through.
ListSubmissions(auth, showAll) ==
    /\ Authorized(auth)
    /\ Hand(1)
    /\ before' = table
    /\ request' = [route |-> "GET /api/submissions", auth |-> auth, showAll |-> showAll]
    /\ Run(ListStatement(showAll))
    /\ UNCHANGED <<queue, now>>

\* POST /api/submissions/:id/status, once the authenticator has let the
\* request through.
UpdateStatus(auth, id, body) ==
    /\ Authorized(auth)
    /\ before' = table
    /\ request' = [ route |-> "POST /api/submissions/:id/status", auth |-> auth,
                    id |-> id, body |-> body ]
    /\ IF StatusUpdates(body, now).updates = <<>>
       THEN /\ response' = [status |-> 400, error |-> "No status fields provided to update."]
            /\ UNCHANGED <<table, sqlite_sequence, queue, now, issued, submitted>>
       ELSE /\ Hand(1)
            /\ Run(StatusStatement(id, body, now))
            /\ UNCHANGED <<queue, now>>

\* GET /: the dashboard page, once the authenticator has let the request through.
Dashboard(auth) ==
    /\ Authorized(auth)
    /\ before' = table
    /\ request' = [route |-> "GET /", auth |-> auth]
    /\ response' = [status |-> 200, html |-> "Submissions Dashboard"]
    /\ UNCHANGED <<table, sqlite_sequence, queue, now, issued, submitted>>

\* The routes registered with the authenticator in front of their handler.
ProtectedRoutes == {"GET /api/submissions", "POST /api/submissions/:id/status", "GET /"}

\* The authenticator middleware turns a request away: it answers 401 with a
\* challenge and never calls the route's handler.
authenticator(route, auth) ==
    /\ route \in ProtectedRoutes
    /\ ~Authorized(auth)
    /\ before' = table
    /\ request' = [route |-> route, auth |-> auth]
    /\ response' = Challenge(auth)
    /\ UNCHANGED <<table, sqlite_sequence, queue, now, issued, submitted>>

\* ------------------------------------------------------------- specification
\* Requests served one at a time: each handler runs to its response.
Next ==
    \/ Tick
    \/ \E auth \in Credentials, body \in SubmitBodies : Submit(auth, body)
    \/ \E auth \in Credentials, showAll \in ShowAllValues : ListSubmissions(auth, showAll)
    \/ \E auth \in Credentials, id \in PathIds, body \in StatusBodies : UpdateStatus(auth, id, body)
    \/ \E auth \in Credentials : Dashboard(auth)
    \/ \E route \in ProtectedRoutes, auth \in Credentials : authenticator(route, auth)

Spec == Init /\ [][Next]_vars

\* ------------------------------------------------------------- overlapping requests
\* Requests whose statements are in flight together: a handler returns as soon
\* as db.run has queued its statement, and the database later executes the
\* queued statements one at a time, in an order of its own.

\* Mutation of StatusStatements: the flag and its timestamp go out as two
\* statements.
StatusStatementsSplit(id, body, t) ==
    LET u == StatusUpdates(body, t)
    IN  { [ sql |-> [verb |-> "UPDATE", set |-> <<u.updates[k]>>, where |-> "id = ?"],
            params |-> <<u.params[k], JsString(id)>> ] : k \in DOMAIN u.updates }

\* The statements one status request hands to the database.
StatusStatements(id, body, t) == {StatusStatement(id, body, t)}

\* db.run: the statements join the connection's queue.
Enqueue(stmts) ==
    /\ Hand(Cardinality(stmts))
    /\ queue' = queue (+) SetToBag(stmts)
    /\ before' = table
    /\ response' = NoResponse
    /\ UNCHANGED <<table, sqlite_sequence, now, issued>>

\* POST /api/submit up to its db.run call.
SubmitQueued(auth, body) ==
    /\ request' = [route |-> "POST /api/submit", auth |-> auth, body |-> body]
    /\ Enqueue({SubmitStatement(body)})

\* POST /api/submissions/:id/status up to its db.run call, for a body with at
\* least one field.
UpdateStatusQueued(auth, id, body) ==
    /\ Authorized(auth)
    /\ StatusUpdates(body, now).updates # <<>>
    /\ request' = [ route |-> "POST /api/submissions/:id/status", auth |-> auth,
                    id |-> id, body |-> body ]
    /\ Enqueue(StatusStatements(id, body, now))

\* The database executes one queued statement and its callback answers.
Callback(stmt) ==
    /\ stmt \in BagToSet(queue)
    /\ Run(stmt)
    /\ queue' = queue (-) SetToBag({stmt})
    /\ before' = table
    /\ request' = NoRequest
    /\ UNCHANGED <<now, submitted>>

\* Status bodies whose fields are booleans, at least one present.
BooleanBodies ==
    { b \in StatusBodies :
        /\ b.isDone # JsUndefined \/ b.isPrinted # JsUndefined
        /\ b.isDone = JsUndefined \/ b.isDone[1] = "boolean"
        /\ b.isPrinted = JsUndefined \/ b.isPrinted[1] = "boolean" }

NextOverlapping ==
    \/ Tick
    \/ \E auth \in Credentials : SubmitQueued(auth, EmptySubmission)
    \/ \E auth \in Credentials, id \in PathIds, body \in BooleanBodies :
          UpdateStatusQueued(auth, id, body)
    \/ \E stmt \in BagToSet(queue) : Callback(stmt)

SpecOverlapping == Init /\ [][NextOverlapping]_vars

\* ------------------------------------------------------------- properties
StatusRoute == "POST /api/submissions/:id/status"
ListRoute == "GET /api/submissions"
SubmitRoute == "POST /api/submit"

\* The one configured username/password pair.
ConfiguredPair == BasicCredentials("admin", "password")

\* A stored flag that is true (a non-zero number).
FlagTrue(v) == v[1] = "integer" /\ v[2] # 0

\* The last step was a handler of the given route answering with the status.
Answered(route, status) == request.route = route /\ response.status = status

\* The last step was the handler of the given route (the authenticator let
\* the request through).
Handled(route) == request.route = route /\ response.status # 401

\* The rows of the table before the last step that the path id names.
Named(id) ==
    {i \in DOMAIN before : before[i].id[1] = "integer" /\ IntToText(before[i].id[2]) = id}

\* A status body that carries at least one of the two fields.
HasFields(body) == body.isDone # JsUndefined \/ body.isPrinted # JsUndefined

\* The columns a status update may write.
StatusColumns == {"isDone", "doneAt", "isPrinted", "printedAt"}

\* C1: every stored submission has doneAt non-null exactly when isDone is
\* true, and printedAt non-null exactly when isPrinted is true.
C1_TimestampMirrorsFlag ==
    \A i \in DOMAIN table :
        /\ (table[i].doneAt # SqlNull) <=> FlagTrue(table[i].isDone)
        /\ (table[i].printedAt # SqlNull) <=> FlagTrue(table[i].isPrinted)

\* C2: a list without showAll = "true" never returns a done row; a list with
\* showAll = "true" returns every row ever created, each once.
C2_ListFilter ==
    Answered(ListRoute, 200) =>
        IF request.showAll = JsString("true")
        THEN /\ Len(response.rows) = Len(table)
             /\ \A k \in DOMAIN issued :
                   \E j \in DOMAIN response.rows : response.rows[j].id = SqlInt(issued[k])
             /\ \A i \in DOMAIN table :
                   \E j \in DOMAIN response.rows : response.rows[j] = table[i]
        ELSE \A j \in DOMAIN response.rows : ~FlagTrue(response.rows[j].isDone)

\* C2 witness: a default list answered while the table holds a done row.
C2_Witness ==
    /\ Answered(ListRoute, 200)
    /\ request.showAll = JsUndefined
    /\ \E i \in DOMAIN table : FlagTrue(table[i].isDone)

\* C3: the rows of a list response are in descending submittedAt order: of
\* two rows with different submittedAt the later one comes first.
C3_ListSorted ==
    Answered(ListRoute, 200) =>
        \A i, j \in DOMAIN response.rows :
            (i < j /\ response.rows[i].submittedAt # response.rows[j].submittedAt)
                => response.rows[i].submittedAt[2] > response.rows[j].submittedAt[2]

\* C3 witness: a list response with two rows submitted at different times.
C3_Witness ==
    /\ Answered(ListRoute, 200)
    /\ Len(response.rows) = 2
    /\ response.rows[1].submittedAt # response.rows[2].submittedAt

\* C4: the ids returned by successful creates are strictly increasing, the
\* k-th returned id is the id of the k-th row and of no other, and stays so.
C4_IdsIncreaseAndStay ==
    /\ Len(table) = Len(issued)
    /\ \A k \in DOMAIN issued : table[k].id = SqlInt(issued[k])
    /\ \A k, l \in DOMAIN issued : k < l => issued[k] < issued[l]
    /\ Answered(SubmitRoute, 201) => response.id = issued[Len(issued)]

\* C4 witness: two creates have succeeded and a status update has run since.
C4_Witness ==
    /\ Len(issued) = 2
    /\ Answered(StatusRoute, 200)

\* C5: a status update whose body has neither field is answered 400 by the
\* handler and writes nothing, whether or not the id exists.
C5_NoFieldsRejected ==
    (Handled(StatusRoute) /\ ~HasFields(request.body)) =>
        /\ response.status = 400
        /\ table = before

\* C5 witness: such a request for an id that exists, and one for an id that
\* does not, are both reachable; this is the first.
C5_Witness ==
    /\ Handled(StatusRoute)
    /\ ~HasFields(request.body)
    /\ Named(request.id) # {}

\* C6: a status update with a field for an id no row has is answered 404
\* (500 if the storage engine fails) and writes nothing; 200 is answered only
\* when exactly one row matched.
C6_UnknownIdNotFound ==
    (Handled(StatusRoute) /\ HasFields(request.body)) =>
        /\ Named(request.id) = {} =>
              /\ response.status \in {404, 500}
              /\ table = before
        /\ response.status = 404 => Named(request.id) = {} /\ table = before
        /\ response.status = 200 => Cardinality(Named(request.id)) = 1

\* C6 witness: a 404 answered while the table holds a row.
C6_Witness ==
    /\ Answered(StatusRoute, 404)
    /\ Len(table) > 0

\* The routes that must sit behind the credential check.
GatedRoutes == {ListRoute, StatusRoute, "GET /"}

\* C7: a request to a gated route without the configured pair is answered
\* with a Basic challenge, no part of it but route and credentials is read and
\* nothing is written, whatever was accepted before; with the configured pair
\* it reaches the handler; a create is never challenged.
C7_AuthGate ==
    /\ (request.route \in GatedRoutes /\ request.auth # ConfiguredPair) =>
          /\ response.status = 401
          /\ response.challenge = "Basic"
          /\ DOMAIN request = {"route", "auth"}
          /\ table = before
    /\ (request.route \in GatedRoutes /\ request.auth = ConfiguredPair) =>
          response.status \in {200, 400, 404, 500}
    /\ request.route = SubmitRoute => response.status \in {201, 500}

\* C7 witness: a list request without credentials is challenged after a
\* status update with the configured pair had been accepted.
C7_Witness ==
    /\ request.route = ListRoute
    /\ request.auth = NoCredentials
    /\ response.status = 401
    /\ \E i \in DOMAIN table : FlagTrue(table[i].isDone)

\* C8: rows are never removed; a row changes only in a successful status
\* update naming it, only in the pair or pairs the body names, and never in
\* its id, submittedAt or customer, vehicle and count attributes.
C8_Frame ==
    /\ Len(table) >= Len(before)
    /\ \A i \in DOMAIN before :
          /\ \A c \in Columns \ StatusColumns : table[i][c] = before[i][c]
          /\ table[i] # before[i] =>
                /\ Answered(StatusRoute, 200)
                /\ i \in Named(request.id)
                /\ request.body.isDone = JsUndefined =>
                      /\ table[i].isDone = before[i].isDone
                      /\ table[i].doneAt = before[i].doneAt
                /\ request.body.isPrinted = JsUndefined =>
                      /\ table[i].isPrinted = before[i].isPrinted
                      /\ table[i].printedAt = before[i].printedAt

\* C8 witness: a status update has changed one of two rows.
C8_Witness ==
    /\ Len(before) = 2
    /\ Answered(StatusRoute, 200)
    /\ table # before

\* A status field that is absent or a boolean.
BooleanOrAbsent(v) == v = JsUndefined \/ v[1] = "boolean"

\* C9: a successful status update sets each named flag and its timestamp from
\* the request alone (true: the time of this request, false: null), whatever
\* the row held before; a boolean update of an existing row is never refused.
C9_TimestampRefreshed ==
    /\ Answered(StatusRoute, 200) =>
          \A i \in Named(request.id) :
              /\ request.body.isDone = JsBool(TRUE) =>
                    table[i].isDone = SqlInt(1) /\ table[i].doneAt = SqlIsoText(now)
              /\ request.body.isDone = JsBool(FALSE) =>
                    table[i].isDone = SqlInt(0) /\ table[i].doneAt = SqlNull
              /\ request.body.isPrinted = JsBool(TRUE) =>
                    table[i].isPrinted = SqlInt(1) /\ table[i].printedAt = SqlIsoText(now)
              /\ request.body.isPrinted = JsBool(FALSE) =>
                    table[i].isPrinted = SqlInt(0) /\ table[i].printedAt = SqlNull
    /\ ( /\ Handled(StatusRoute)
         /\ HasFields(request.body)
         /\ BooleanOrAbsent(request.body.isDone)
         /\ BooleanOrAbsent(request.body.isPrinted)
         /\ Named(request.id) # {} ) => response.status \in {200, 500}

\* C9 witness: isDone = true is set again on a row already done, and doneAt
\* moves from the earlier time to the later one.
C9_Witness ==
    /\ Answered(StatusRoute, 200)
    /\ request.body.isDone = JsBool(TRUE)
    /\ \E i \in Named(request.id) :
          /\ FlagTrue(before[i].isDone)
          /\ before[i].doneAt = SqlIsoText(0)
          /\ table[i].doneAt = SqlIsoText(1)

\* Does the statement's SET list name the column?
Sets(stmt, c) == \E k \in DOMAIN stmt.sql.set : stmt.sql.set[k] = c

\* The parameter the statement binds to the column.
ParamFor(stmt, c) == stmt.params[CHOOSE k \in DOMAIN stmt.sql.set : stmt.sql.set[k] = c]

\* The rows of the table before the last step that the statement's id names.
Target(stmt) ==
    {i \in DOMAIN before : before[i].id = SqlInt(TextToInt(stmt.params[Len(stmt.params)][2]))}

====
